---------------------------- MODULE Spec2Model ----------------------------
(***************************************************************************)
(* min_hour_30deg.py: a clock of three synthetic bodies (CLOCK, MINUTE,    *)
(* HOUR).  The script builds an SP-kernel with two circular-orbit (type 5) *)
(* segments if the file is absent, loads it, checks the hands every half   *)
(* hour over one day, and then runs three geometry-finder searches on the  *)
(* angle between the hands (22 / 23 minima, 44 crossings of 30 degrees).   *)
(*                                                                         *)
(* Units.  Time is counted in ticks of 10 ms, the finest time the script   *)
(* uses (10e-3 s), so every epoch of the script is an integer.  Angles are *)
(* counted in units of 1/twopi of a turn, with twopi chosen so that every  *)
(* hand moves a whole number of units per tick; a number of degrees n is   *)
(* the angle Deg(n).  Arithmetic is exact: the 1e-10 tolerances of the     *)
(* script guard floating-point rounding, which the model does not have.    *)
(*                                                                         *)
(* The script is modelled as run by the interpreter it was written for,    *)
(* where map() calls sp.furnsh on each argument as it is evaluated.        *)
(***************************************************************************)
EXTENDS Integers, Sequences, FiniteSets, TLC

\* ------------------------------------------------------------------------
\* Bounds of the model

\* Number of times the script is run against the same working directory.
MaxRuns == 2

\* ------------------------------------------------------------------------
\* Constants of the script

TicksPerSecond == 100

\* sp.convrt(1.0,'minutes','seconds'), sp.convrt(1.0,'hours','seconds'),
\* sp.convrt(1.0,'days','hours'), sp.spd(), in ticks
spm == 60 * TicksPerSecond
sph == 60 * spm
hpd == 24
spd == hpd * sph

\* One full turn, in angle units.
twopi == 8640000

\* The angle of n degrees, in angle units (dpr * twopi = 360 degrees).
Deg(n) == n * (twopi \div 360)

\* ET0 = @2000-01-01-00:00:00.000 in the kernel pool: seconds past J2000,
\* which is 2000-01-01 12:00:00 TDB, so twelve hours before zero.
ET0 == 0 - 12 * sph

sClock == "CLOCK"
sMinute == "MINUTE"
sHour == "HOUR"

\* ------------------------------------------------------------------------
\* Orbit parameters.  A semi-major axis a = (T/twopi)^(2/3) is represented
\* by T, the period of the circular orbit of that radius under mu = 1, and
\* a speed v = a^(-1/2) by the T of the radius a it is the circular speed
\* of.  A state (a,0,0),(0,v,0) is a circular orbit exactly when the two
\* representatives are equal.

\* Variant: the period the docstring names, one orbit per minute.
aMinute_perMinute == spm

\* "Period" for minute hand is one hour
aMinute == sph
spdMinute == aMinute

\* Variant: one orbit per day.
aHour_perDay == spd

\* "Period" for hour hand is half a day
aHour == spd \div 2
spdHour == aHour

\* [[a,0.,0., 0.,v,0.]]: position along +X (right ascension 0), velocity
\* along +Y.
State(a, v) == [a |-> a, v |-> v, ra |-> 0]

\* Segment epoch limits and epochs handed to spkw05 (both segments).
SegFirst == 0 - spd
SegLast == 2 * spd
SegEpochs == <<0 - spd, 2 * spd>>

\* ------------------------------------------------------------------------
\* The SP-kernel file and the toolkit's view of it

NoFile == [exists |-> FALSE, segs |-> <<>>, closed |-> FALSE]

\* A type 5 segment as spkw05 writes it.
Segment(body, center, first, last, states, epochs) ==
    [body |-> body, center |-> center, first |-> first, last |-> last,
     mu |-> 1, states |-> states, epochs |-> epochs]

\* Segments of a file for a body that cover epoch t.
Covering(file, body, t) ==
    {i \in 1..Len(file.segs) :
        /\ file.segs[i].body = body
        /\ file.segs[i].first <= t
        /\ t <= file.segs[i].last}

\* Two-body propagation of a stored state by dt ticks: right ascension of
\* the body, or -1 when the state is not a circular orbit.
Propagate(st, dt) ==
    IF st.a = st.v
    THEN (st.ra + (dt % st.a) * (twopi \div st.a)) % twopi
    ELSE -1

\* Type 5 evaluation: the state at t is a weighted average of the two
\* states propagated from the bracketing epochs.  When both propagations
\* agree the average is that state; otherwise it lies off both (-1).
EvalType5(seg, t) ==
    LET p1 == Propagate(seg.states[1], t - seg.epochs[1])
        p2 == Propagate(seg.states[2], t - seg.epochs[2])
    IN  IF p1 = p2 THEN p1 ELSE -1

VARIABLES
    spk,        \* the file CLOCKSPK = 'min_hour_clock.bsp' on disk
    run,        \* number of the current run of the script
    pc,         \* position of the current run
    err,        \* what ended the run, "" while it runs or after success
    pool,       \* kernel pool loaded from the script's own text kernel
    handle,     \* write handle from spkopn: "none", "open", "closed"
    attached,   \* the SP-kernel is loaded (furnsh) for reading
    et, iPass,  \* validation loop
    stMinute, stHour,   \* right ascensions returned by the last spkezr
    srch,       \* which of the three searches is under way (1..3)
    cnfine,     \* confinement window <<start, stop>>
    result,     \* result window: epochs of the zero-width intervals
    gt, gprev,  \* geometry finder: last sample epoch and its predicate
    probe,      \* history: what os.path.exists returned in this run
    spk0,       \* history: the file as the run found it
    calls       \* history: spkopn/spkw05/spkcls calls made by this run

vars == <<spk, run, pc, err, pool, handle, attached, et, iPass, stMinute,
          stHour, srch, cnfine, result, gt, gprev, probe, spk0, calls>>

\* A fresh interpreter process.
FreshProcess ==
    /\ pc' = "furnshArgs"
    /\ err' = ""
    /\ pool' = FALSE
    /\ handle' = "none"
    /\ attached' = FALSE
    /\ et' = 0
    /\ iPass' = 0
    /\ stMinute' = -1
    /\ stHour' = -1
    /\ srch' = 0
    /\ cnfine' = <<0, 0>>
    /\ result' = <<>>
    /\ gt' = 0
    /\ gprev' = FALSE
    /\ probe' = FALSE
    /\ calls' = 0

Init ==
    /\ spk = NoFile
    /\ run = 1
    /\ pc = "furnshArgs"
    /\ err = ""
    /\ pool = FALSE
    /\ handle = "none"
    /\ attached = FALSE
    /\ et = 0
    /\ iPass = 0
    /\ stMinute = -1
    /\ stHour = -1
    /\ srch = 0
    /\ cnfine = <<0, 0>>
    /\ result = <<>>
    /\ gt = 0
    /\ gprev = FALSE
    /\ probe = FALSE
    /\ spk0 = NoFile
    /\ calls = 0

\* An uncaught exception ends the process where it is.
Raise(what) ==
    /\ pc' = "aborted"
    /\ err' = what

\* ------------------------------------------------------------------------
\* Start-up and build

\* map(sp.furnsh, argv): the script furnishes itself as a text kernel.
FurnshArgs ==
    /\ pc = "furnshArgs"
    /\ pool' = TRUE
    /\ pc' = "exists"
    /\ UNCHANGED <<spk, run, err, handle, attached, et, iPass, stMinute,
                   stHour, srch, cnfine, result, gt, gprev, probe, spk0,
                   calls>>

\* Variant: the probe is ignored and the kernel is written on every run.
BuildNeeded_always(exists) == TRUE

\* if not os.path.exists(fnClockSpk)
BuildNeeded(exists) == ~exists

Exists ==
    /\ pc = "exists"
    /\ pool
    /\ probe' = spk.exists
    /\ pc' = IF BuildNeeded(spk.exists) THEN "spkopn" ELSE "furnsh"
    /\ UNCHANGED <<spk, run, err, pool, handle, attached, et, iPass,
                   stMinute, stHour, srch, cnfine, result, gt, gprev, spk0,
                   calls>>

\* handle = sp.spkopn(fnClockSpk, 'clock_simulation', 0): a new file with
\* its file record, open for writing.
Spkopn ==
    /\ pc = "spkopn"
    /\ spk' = [exists |-> TRUE, segs |-> <<>>, closed |-> FALSE]
    /\ handle' = "open"
    /\ calls' = calls + 1
    /\ pc' = "spkw05Minute"
    /\ UNCHANGED <<run, err, pool, attached, et, iPass, stMinute, stHour,
                   srch, cnfine, result, gt, gprev, probe, spk0>>

\* spkopn raises (the directory cannot be written): no file, no handle.
SpkopnFails ==
    /\ pc = "spkopn"
    /\ calls' = calls + 1
    /\ Raise("spkopn")
    /\ UNCHANGED <<spk, run, pool, handle, attached, et, iPass, stMinute,
                   stHour, srch, cnfine, result, gt, gprev, probe, spk0>>

MinuteSegment ==
    Segment(sMinute, sClock, SegFirst, SegLast,
            <<State(aMinute, spdMinute), State(aMinute, spdMinute)>>,
            SegEpochs)

HourSegment ==
    Segment(sHour, sClock, SegFirst, SegLast,
            <<State(aHour, spdHour), State(aHour, spdHour)>>,
            SegEpochs)

\* sp.spkw05(handle, iMinute, iClock, ...)
Spkw05Minute ==
    /\ pc = "spkw05Minute"
    /\ handle = "open"
    /\ spk' = [spk EXCEPT !.segs = Append(@, MinuteSegment)]
    /\ calls' = calls + 1
    /\ pc' = "spkw05Hour"
    /\ UNCHANGED <<run, err, pool, handle, attached, et, iPass, stMinute,
                   stHour, srch, cnfine, result, gt, gprev, probe, spk0>>

\* sp.spkw05(handle, iHour, iClock, ...)
Spkw05Hour ==
    /\ pc = "spkw05Hour"
    /\ handle = "open"
    /\ spk' = [spk EXCEPT !.segs = Append(@, HourSegment)]
    /\ calls' = calls + 1
    /\ pc' = "spkcls"
    /\ UNCHANGED <<run, err, pool, handle, attached, et, iPass, stMinute,
                   stHour, srch, cnfine, result, gt, gprev, probe, spk0>>

\* Either spkw05 raises (an I/O failure while the segment is written): the
\* exception is not caught, so nothing after it runs, spkcls included.
Spkw05Fails ==
    /\ pc \in {"spkw05Minute", "spkw05Hour"}
    /\ calls' = calls + 1
    /\ Raise("spkw05")
    /\ UNCHANGED <<spk, run, pool, handle, attached, et, iPass, stMinute,
                   stHour, srch, cnfine, result, gt, gprev, probe, spk0>>

\* sp.spkcls(handle)
Spkcls ==
    /\ pc = "spkcls"
    /\ handle = "open"
    /\ spk' = [spk EXCEPT !.closed = TRUE]
    /\ handle' = "closed"
    /\ calls' = calls + 1
    /\ pc' = "furnsh"
    /\ UNCHANGED <<run, err, pool, attached, et, iPass, stMinute, stHour,
                   srch, cnfine, result, gt, gprev, probe, spk0>>

\* sp.furnsh(fnClockSpk), then et,iPass = et0, 0 with et0 from the pool.
\* A file that spkopn created loads, whatever was written to it after.
Furnsh ==
    /\ pc = "furnsh"
    /\ IF spk.exists
       THEN /\ attached' = TRUE
            /\ et' = ET0
            /\ iPass' = 0
            /\ pc' = "spkezr"
            /\ err' = err
       ELSE /\ Raise("furnsh")
            /\ UNCHANGED <<attached, et, iPass>>
    /\ UNCHANGED <<spk, run, pool, handle, stMinute, stHour, srch, cnfine,
                   result, gt, gprev, probe, spk0, calls>>

\* ------------------------------------------------------------------------
\* Queries against the loaded SP-kernel

\* The segment that answers for a body at t: the last one in the file that
\* covers t.
Answering(body, t) ==
    LET c == Covering(spk, body, t)
    IN  spk.segs[CHOOSE i \in c : \A j \in c : j <= i]

HasData(body, t) == attached /\ Covering(spk, body, t) # {}

\* sp.spkezr(body, t, 'J2000', 'NONE', sClock)[0][:3], as a direction:
\* the right ascension of the body seen from CLOCK (-1: not on the circle).
Spkezr(body, t) == EvalType5(Answering(body, t), t)

\* sp.vsep(u, v): the angle between two directions, in [0, twopi/2].
Vsep(u, v) ==
    LET d == (u - v) % twopi
    IN  IF d <= twopi - d THEN d ELSE twopi - d

\* ------------------------------------------------------------------------
\* Test of the SP-kernel, every half hour

halfHour == sph \div 2
degPerHour == (2 * Deg(360)) \div hpd

\* while et < (et0+spd+1): the two spkezr calls of one pass.
LoopQuery ==
    /\ pc = "spkezr"
    /\ et < ET0 + spd + 1 * TicksPerSecond
    /\ stMinute' = IF HasData(sMinute, et) THEN Spkezr(sMinute, et)
                   ELSE stMinute
    /\ stHour' = IF HasData(sMinute, et) /\ HasData(sHour, et)
                 THEN Spkezr(sHour, et) ELSE stHour
    /\ IF HasData(sMinute, et) /\ HasData(sHour, et)
       THEN pc' = "assert" /\ err' = err
       ELSE Raise("spkezr")
    /\ UNCHANGED <<spk, run, pool, handle, attached, et, iPass, srch,
                   cnfine, result, gt, gprev, probe, spk0, calls>>

\* vhat(stMinute[:3]) is [-1,0,0] on odd passes, [+1,0,0] on even ones.
MinuteOk(pass, raMinute) ==
    IF pass % 2 = 1 THEN raMinute = Deg(180) ELSE raMinute = 0

vsepExpectDeg(pass) == (degPerHour * (pass \div 2)) % Deg(360)

\* assert xDiffTolerance(vsepDeg, vsepExpectDeg)
\*     or xDiffTolerance((360 - vsepDeg), vsepExpectDeg)
VsepOk(pass, raHour, raMinute) ==
    /\ raHour # -1
    /\ raMinute # -1
    /\ \/ Vsep(raHour, raMinute) = vsepExpectDeg(pass)
       \/ Deg(360) - Vsep(raHour, raMinute) = vsepExpectDeg(pass)

\* The assertions of one pass, then et += halfHour and iPass += 1.
LoopAssert ==
    /\ pc = "assert"
    /\ IF /\ MinuteOk(iPass, stMinute)
          /\ (iPass % 2 = 0 => VsepOk(iPass, stHour, stMinute))
       THEN /\ et' = et + halfHour
            /\ iPass' = iPass + 1
            /\ pc' = "spkezr"
            /\ err' = err
       ELSE /\ Raise("assert")
            /\ UNCHANGED <<et, iPass>>
    /\ UNCHANGED <<spk, run, pool, handle, attached, stMinute, stHour,
                   srch, cnfine, result, gt, gprev, probe, spk0, calls>>

\* The loop condition fails: the half-hour tests passed.
LoopExit ==
    /\ pc = "spkezr"
    /\ ~(et < ET0 + spd + 1 * TicksPerSecond)
    /\ srch' = 1
    /\ pc' = "wninsd"
    /\ UNCHANGED <<spk, run, err, pool, handle, attached, et, iPass,
                   stMinute, stHour, cnfine, result, gt, gprev, probe,
                   spk0, calls>>

\* ------------------------------------------------------------------------
\* The three searches

\* 10e-3 seconds
tenMs == (10 * TicksPerSecond) \div 1000

etStart == ET0 - tenMs

\* Variants: every search ends 10 ms before, or 10 ms after, ET0 + day.
etStop_early(s) == ET0 + spd - tenMs
etStop_late(s) == ET0 + spd + tenMs

\* etStop of the first search, and of the second and third.
etStop(s) == IF s = 1 THEN ET0 + spd - tenMs ELSE ET0 + spd + tenMs

\* Arguments of the three sp.gfpa calls.
Relate(s) == IF s = 3 THEN "=" ELSE "LOCMIN"

refval(s) == IF s = 3 THEN Deg(30) ELSE 0

\* Variant: the third search steps by an hour.
gfStep_coarse(s) == IF s = 3 THEN sph ELSE spm

\* The step argument: spm
gfStep(s) == spm

\* assert 22 == / 23 == / 44 == sp.wncard(result)
Expected(s) == CASE s = 1 -> 22 [] s = 2 -> 23 [] OTHER -> 44

\* sp.wninsd(etStart, etStop, cnfine)
Wninsd ==
    /\ pc = "wninsd"
    /\ cnfine' = <<etStart, etStop(srch)>>
    /\ pc' = "gfpa"
    /\ UNCHANGED <<spk, run, err, pool, handle, attached, et, iPass,
                   stMinute, stHour, srch, result, gt, gprev, probe, spk0,
                   calls>>

\* The phase angle at CLOCK between MINUTE and HOUR at t.
PhaseAngle(t) == Vsep(Spkezr(sMinute, t), Spkezr(sHour, t))

\* The angle is falling at t.
Decreasing(t) == PhaseAngle(t + 1) < PhaseAngle(t - 1)

\* The condition the finder samples: for LOCMIN the sign of the derivative,
\* for "=" the sign of the angle minus the reference value.
Sample(s, t) ==
    IF Relate(s) = "LOCMIN" THEN Decreasing(t) ELSE PhaseAngle(t) < refval(s)

\* Bisection of a bracket [lo, hi] on which the sampled condition changes,
\* down to one tick: the first tick with the condition of hi.
RECURSIVE Refine(_, _, _)
Refine(s, lo, hi) ==
    IF hi - lo <= 1 THEN hi
    ELSE LET mid == (lo + hi) \div 2
         IN  IF Sample(s, mid) = Sample(s, lo)
             THEN Refine(s, mid, hi)
             ELSE Refine(s, lo, mid)

\* A change between two consecutive samples that is an event of the search:
\* the end of a falling stretch for LOCMIN, any crossing for "=".
Event(s, before, after) ==
    IF Relate(s) = "LOCMIN" THEN before /\ ~after ELSE before # after

SearchHasData(t) ==
    /\ HasData(sMinute, t - 1) /\ HasData(sMinute, t + 1)
    /\ HasData(sHour, t - 1) /\ HasData(sHour, t + 1)

\* sp.gfpa(sClock, sMinute, "NONE", sHour, relate, refval, 0.0, spm, 6000,
\*         cnfine, result): the result is emptied and the start sampled.
GfpaBegin ==
    /\ pc = "gfpa"
    /\ result' = <<>>
    /\ gt' = cnfine[1]
    /\ IF SearchHasData(cnfine[1])
       THEN /\ gprev' = Sample(srch, cnfine[1])
            /\ pc' = "gfstep"
            /\ err' = err
       ELSE /\ gprev' = gprev
            /\ Raise("gfpa")
    /\ UNCHANGED <<spk, run, pool, handle, attached, et, iPass, stMinute,
                   stHour, srch, cnfine, probe, spk0, calls>>

\* One step of the search: sample at the next step boundary (or the end of
\* the window) and refine an event bracketed by the two samples.
GfpaStep ==
    /\ pc = "gfstep"
    /\ gt < cnfine[2]
    /\ LET nt == IF gt + gfStep(srch) < cnfine[2] THEN gt + gfStep(srch) ELSE cnfine[2]
       IN  IF SearchHasData(nt)
           THEN /\ gt' = nt
                /\ gprev' = Sample(srch, nt)
                /\ result' = IF Event(srch, gprev, Sample(srch, nt))
                             THEN Append(result, Refine(srch, gt, nt))
                             ELSE result
                /\ UNCHANGED <<pc, err>>
           ELSE /\ Raise("gfpa")
                /\ UNCHANGED <<gt, gprev, result>>
    /\ UNCHANGED <<spk, run, pool, handle, attached, et, iPass, stMinute,
                   stHour, srch, cnfine, probe, spk0, calls>>

\* The end of the window is reached: gfpa returns.
GfpaEnd ==
    /\ pc = "gfstep"
    /\ gt >= cnfine[2]
    /\ pc' = "wncard"
    /\ UNCHANGED <<spk, run, err, pool, handle, attached, et, iPass,
                   stMinute, stHour, srch, cnfine, result, gt, gprev, probe,
                   spk0, calls>>

\* assert N == sp.wncard(result), then the next search or the end.
Wncard ==
    /\ pc = "wncard"
    /\ IF Expected(srch) = Len(result)
       THEN /\ pc' = IF srch < 3 THEN "wninsd" ELSE "done"
            /\ srch' = IF srch < 3 THEN srch + 1 ELSE srch
            /\ err' = err
       ELSE /\ Raise("count")
            /\ srch' = srch
    /\ UNCHANGED <<spk, run, pool, handle, attached, et, iPass, stMinute,
                   stHour, cnfine, result, gt, gprev, probe, spk0, calls>>

\* ------------------------------------------------------------------------
\* Between runs

Terminated == pc \in {"done", "aborted"}

\* [rm min_hour_clock.bsp]; python min_hour_30deg.py: the script is run
\* again in the same directory, after the file was removed or not.
NewRun ==
    /\ Terminated
    /\ run < MaxRuns
    /\ run' = run + 1
    /\ \E rm \in BOOLEAN : spk' = IF rm THEN NoFile ELSE spk
    /\ spk0' = spk'
    /\ FreshProcess

Next ==
    \/ FurnshArgs
    \/ Exists
    \/ Spkopn
    \/ SpkopnFails
    \/ Spkw05Minute
    \/ Spkw05Hour
    \/ Spkw05Fails
    \/ Spkcls
    \/ Furnsh
    \/ LoopQuery
    \/ LoopAssert
    \/ LoopExit
    \/ Wninsd
    \/ GfpaBegin
    \/ GfpaStep
    \/ GfpaEnd
    \/ Wncard
    \/ NewRun

Spec == Init /\ [][Next]_vars

\* ------------------------------------------------------------------------
\* Properties

Min(a, b) == IF a <= b THEN a ELSE b

\* Both segments are in the file and its writer closed it.
Built(file) ==
    /\ file.exists
    /\ file.closed
    /\ \E i \in 1..Len(file.segs) : file.segs[i].body = sMinute
    /\ \E i \in 1..Len(file.segs) : file.segs[i].body = sHour

\* C1: a run that finds the file present makes no spkopn, spkw05 or spkcls
\* call and leaves the file as it found it, so after a second run in a row
\* the file is the one the first run left.
BuildIdempotent ==
    probe => calls = 0 /\ handle = "none" /\ spk = spk0

BuildIdempotentWitness ==
    probe /\ run = 2 /\ pc = "done" /\ Built(spk)

\* C2: at every epoch ET0 + k * 30 minutes the loop visits, the direction
\* of MINUTE read from the kernel is +X for even k and -X for odd k.
MinuteDirection ==
    pc = "assert" =>
        /\ et = ET0 + iPass * halfHour
        /\ iPass \in 0..48
        /\ stMinute = IF iPass % 2 = 0 THEN 0 ELSE Deg(180)

MinuteDirectionWitness ==
    pc = "assert" /\ iPass = 47 /\ stMinute = Deg(180)

\* C3: at every whole hour k = 0..24 the loop visits, the angle between
\* HOUR and MINUTE is min((30 k) mod 360, 360 - (30 k) mod 360) degrees,
\* and the assertion of the script on it passes.
SeparationLaw ==
    pc = "assert" /\ iPass % 2 = 0 =>
        LET k == iPass \div 2
            e == (Deg(30) * k) % Deg(360)
        IN  /\ k \in 0..24
            /\ Vsep(stHour, stMinute) = Min(e, Deg(360) - e)
            /\ VsepOk(iPass, stHour, stMinute)

SeparationLawWitness ==
    pc = "assert" /\ iPass = 14 /\ Vsep(stHour, stMinute) = Deg(150)

\* C4: the LOCMIN search over [ET0 - 10 ms, ET0 + day - 10 ms] returns 22
\* intervals; the one at ET0 is among them, none is at ET0 + day.
AlignmentsPerDay ==
    pc = "wncard" /\ srch = 1 =>
        /\ cnfine = <<ET0 - tenMs, ET0 + spd - tenMs>>
        /\ Len(result) = 22
        /\ result[1] = ET0
        /\ \A i \in 1..Len(result) : result[i] < ET0 + spd

AlignmentsPerDayWitness ==
    pc = "wncard" /\ srch = 1 /\ Len(result) = 22 /\ result[1] = ET0

\* C5: the LOCMIN search over [ET0 - 10 ms, ET0 + day + 10 ms] returns 23
\* intervals: 22 inside the one-day window and one more at ET0 + day.
AlignmentsPerDayExtended ==
    pc = "wncard" /\ srch = 2 =>
        /\ cnfine = <<ET0 - tenMs, ET0 + spd + tenMs>>
        /\ Len(result) = 23
        /\ result[23] = ET0 + spd
        /\ \A i \in 1..22 : result[i] <= ET0 + spd - tenMs

AlignmentsPerDayExtendedWitness ==
    pc = "wncard" /\ srch = 2 /\ Len(result) = 23
    /\ result[23] = ET0 + spd

\* C6: the search for an angle of 30 degrees over the extended window, with
\* a step of 60 seconds, returns 44 intervals, each a crossing of 30
\* degrees and no two the same.
ThirtyDegreeCrossings ==
    pc = "wncard" /\ srch = 3 =>
        /\ cnfine = <<ET0 - tenMs, ET0 + spd + tenMs>>
        /\ gfStep(srch) = 60 * TicksPerSecond
        /\ Len(result) = 44
        /\ \A i \in 1..Len(result) :
              /\ (PhaseAngle(result[i] - 1) < Deg(30))
                   # (PhaseAngle(result[i]) < Deg(30))
              /\ i > 1 => result[i - 1] < result[i]

ThirtyDegreeCrossingsWitness ==
    pc = "wncard" /\ srch = 3 /\ Len(result) = 44

\* C7: once the kernel is built, both segments are valid from ET0 - day to
\* ET0 + 2 days, which are also the two epochs of their states.
ValidityAroundET0 ==
    Built(spk) =>
        \A i \in 1..Len(spk.segs) :
            /\ spk.segs[i].first = ET0 - spd
            /\ spk.segs[i].last = ET0 + 2 * spd
            /\ spk.segs[i].epochs = <<ET0 - spd, ET0 + 2 * spd>>

\* C8: when the process has ended, normally or by an exception, the write
\* handle it opened is closed and the kernel it loaded is unloaded.
HandlesReleased ==
    Terminated => handle # "open" /\ ~attached

\* One orbit per T: the body is back after T, a quarter turn on after T/4
\* and one degree on after T/360.
OncePer(body, t, T) ==
    /\ Spkezr(body, t + T) = Spkezr(body, t)
    /\ (Spkezr(body, t + T \div 4) - Spkezr(body, t)) % twopi = Deg(90)
    /\ (Spkezr(body, t + T \div 360) - Spkezr(body, t)) % twopi = Deg(1)

TestsOnBuiltKernel ==
    attached => Built(spk)

=============================================================================
